---- MODULE Spec2Model ----
(***************************************************************************)
(* A model of public/chat.js, the browser side of the haiku chat: the      *)
(* chat history kept in memory and in localStorage, the asynchronous       *)
(* sendMessage handler with its two suspension points (awaiting the        *)
(* response of fetch, awaiting a chunk of the body), and the message list  *)
(* of the page.                                                            *)
(*                                                                         *)
(* Text is a sequence of characters (one-character strings); the two      *)
(* fixed texts of the program are kept as one unit each.  JSON text is a   *)
(* sequence of tokens, so that stringify and parse are real conversions    *)
(* and a chunk boundary can fall inside a line.                            *)
(*                                                                         *)
(* A state of the model is a point where the script has yielded: nothing   *)
(* in flight, or sendMessage suspended at one of its awaits.  sendMessage  *)
(* can be called at any such point, with any text in the input: by the     *)
(* Enter key, by the button, or directly.  The storage either works for    *)
(* the whole session or throws on every access.                            *)
(***************************************************************************)
EXTENDS Naturals, Sequences, FiniteSets, TLC

VARIABLES
  localStorage,      \* the item stored under STORAGE_KEY
  chatHistory,       \* the value of `chatHistory` (a JSON value)
  isProcessing,      \* the busy flag
  userInputValue,    \* userInput.value
  userInputDisabled, \* userInput.disabled
  sendButtonDisabled,\* sendButton.disabled
  typingVisible,     \* typingIndicator has class "visible"
  chatMessages,      \* the children of #chat-messages, in order
  pc,                \* where the sendMessage invocation in flight is suspended
  assistantMessageEl,\* index in chatMessages of the pending reply element (0: none)
  responseText,      \* the accumulator of the invocation
  body,              \* the part of the response body not yet read
  requests,          \* history: the `messages` of every fetch issued, in order
  renders,           \* history: the texts rendered into the pending element
  fullBody,          \* history: the whole body of the response being read
  wholeLines,        \* history: no read so far has ended inside a line
  wholeText,         \* history: the `response` texts of the lines that
                     \* arrived whole within one chunk, concatenated
  outcome,           \* history: how the last exchange settled
  linesSent,         \* history: the lines of all the bodies so far
  lastSave           \* history: how the last saveChatHistory call ended

vars == <<localStorage, chatHistory, isProcessing, userInputValue,
          userInputDisabled, sendButtonDisabled, typingVisible, chatMessages,
          pc, assistantMessageEl, responseText, body, requests, renders,
          fullBody, wholeLines, wholeText, outcome, linesSent, lastSave>>

(***************************************************************************)
(* Bounds of the model.                                                    *)
(***************************************************************************)
\* the submissions one session accepts
MaxExchanges == 2
\* the lines of all the response bodies of one session, taken together
MaxLines == 2

(***************************************************************************)
(* Text.                                                                   *)
(***************************************************************************)
WhiteSpace == {" ", "\n", "\t"}

WelcomeText ==
  <<"### Hello there! I'm an LLM Haiku poet, here to give you a hand with your writing.\nIf you write a haiku, I'll help you refine it or suggest improvements. Let's create some beautiful poetry together!">>

errMsg == <<"Sorry, there was an error processing your request.">>

Last(s) == s[Len(s)]
Front(s) == SubSeq(s, 1, Len(s) - 1)

RECURSIVE Flatten(_)
Flatten(ss) == IF ss = <<>> THEN <<>> ELSE Head(ss) \o Flatten(Tail(ss))

RECURSIVE trimStart(_)
trimStart(s) ==
  IF s # <<>> /\ Head(s) \in WhiteSpace THEN trimStart(Tail(s)) ELSE s

RECURSIVE trimEnd(_)
trimEnd(s) ==
  IF s # <<>> /\ Last(s) \in WhiteSpace THEN trimEnd(Front(s)) ELSE s

trimNothing(s) == s

\* String.prototype.trim
trim(s) == trimEnd(trimStart(s))

(***************************************************************************)
(* JSON text, as tokens.  A member token stands for  "key":"text" .        *)
(***************************************************************************)
Tok(k) == [k |-> k, key |-> "", s |-> <<>>]
LBrace == Tok("{")
RBrace == Tok("}")
LBrack == Tok("[")
RBrack == Tok("]")
NullTok == Tok("null")
NewLine == Tok("\n")
\* text that is no JSON, such as  not json
Garbage == Tok("garbage")
NumTok(digits) == [k |-> "number", key |-> "", s |-> digits]
StrTok(t) == [k |-> "string", key |-> "", s |-> t]
Member(key, t) == [k |-> "member", key |-> key, s |-> t]

(***************************************************************************)
(* JSON values.  An object is its sequence of members; an array is the    *)
(* sequence of its elements, each an object.                               *)
(***************************************************************************)
JValue(type, text, fields, items) ==
  [type |-> type, text |-> text, fields |-> fields, items |-> items]
JNull == JValue("null", <<>>, <<>>, <<>>)
JNumber(digits) == JValue("number", digits, <<>>, <<>>)
JString(t) == JValue("string", t, <<>>, <<>>)
JObject(fields) == JValue("object", <<>>, fields, <<>>)
JArray(items) == JValue("array", <<>>, <<>>, items)
SyntaxError == JValue("SyntaxError", <<>>, <<>>, <<>>)

\* the object literal { role: role, content: content }
Message(role, content) == <<Member("role", <<role>>), Member("content", content)>>

HasField(fields, key) == \E i \in 1..Len(fields) : fields[i].key = key
\* the value of the last member named key (JSON.parse keeps the last duplicate)
Field(fields, key) ==
  fields[CHOOSE i \in 1..Len(fields) :
           /\ fields[i].key = key
           /\ \A j \in (i + 1)..Len(fields) : fields[j].key # key].s

Role(m) == Field(m, "role")[1]
Content(m) == Field(m, "content")

IsObjectText(toks) ==
  /\ Len(toks) >= 2
  /\ toks[1] = LBrace
  /\ toks[Len(toks)] = RBrace
  /\ \A i \in 2..(Len(toks) - 1) : toks[i].k = "member"

\* the texts of the objects of an array, or failure
RECURSIVE ParseElements(_)
ParseElements(toks) ==
  IF toks = <<>> THEN [ok |-> TRUE, items |-> <<>>]
  ELSE IF \A j \in 1..Len(toks) : toks[j] # RBrace
    THEN [ok |-> FALSE, items |-> <<>>]
    ELSE LET j == CHOOSE n \in 1..Len(toks) :
                    toks[n] = RBrace /\ \A m \in 1..(n - 1) : toks[m] # RBrace
             rest == ParseElements(SubSeq(toks, j + 1, Len(toks)))
         IN  IF IsObjectText(SubSeq(toks, 1, j)) /\ rest.ok
               THEN [ok |-> TRUE,
                     items |-> <<SubSeq(toks, 2, j - 1)>> \o rest.items]
               ELSE [ok |-> FALSE, items |-> <<>>]

\* JSON.parse
JSONparse(toks) ==
  IF toks = <<NullTok>> THEN JNull
  ELSE IF Len(toks) = 1 /\ toks[1].k = "number" THEN JNumber(toks[1].s)
  ELSE IF Len(toks) = 1 /\ toks[1].k = "string" THEN JString(toks[1].s)
  ELSE IF IsObjectText(toks) THEN JObject(SubSeq(toks, 2, Len(toks) - 1))
  ELSE IF Len(toks) >= 2 /\ toks[1] = LBrack /\ toks[Len(toks)] = RBrack
    THEN LET els == ParseElements(SubSeq(toks, 2, Len(toks) - 1))
         IN  IF els.ok THEN JArray(els.items) ELSE SyntaxError
  ELSE SyntaxError

\* JSON.stringify
JSONstringify(v) ==
  CASE v.type = "null" -> <<NullTok>>
    [] v.type = "number" -> <<NumTok(v.text)>>
    [] v.type = "string" -> <<StrTok(v.text)>>
    [] v.type = "object" -> <<LBrace>> \o v.fields \o <<RBrace>>
    [] v.type = "array" ->
         <<LBrack>>
           \o Flatten([i \in 1..Len(v.items) |->
                         <<LBrace>> \o v.items[i] \o <<RBrace>>])
           \o <<RBrack>>

(***************************************************************************)
(* localStorage: the item is absent, or a text; or the storage cannot be  *)
(* used at all and every access to it throws.                              *)
(***************************************************************************)
Absent == [kind |-> "absent", raw |-> <<>>]
Blocked == [kind |-> "blocked", raw |-> <<>>]
Stored(raw) == [kind |-> "text", raw |-> raw]

defaultHistory == JArray(<<Message("assistant", WelcomeText)>>)

loadChatHistoryEmpty(store) ==
  IF store.kind = "text" /\ store.raw # <<>>
       /\ JSONparse(store.raw).type # "SyntaxError"
    THEN JSONparse(store.raw)
    ELSE JArray(<<>>)

\* the initialiser of chatHistory: getItem, JSON.parse, or the default
loadChatHistory(store) ==
  IF store.kind = "blocked" THEN defaultHistory
  ELSE IF store.kind = "text" /\ store.raw # <<>>
    THEN LET v == JSONparse(store.raw)
         IN  IF v.type = "SyntaxError" THEN defaultHistory ELSE v
    ELSE defaultHistory

saveChatHistoryNever(store, history) == store

\* saveChatHistory: the item after the call; setItem throws when the
\* storage cannot be used, and the throw is caught
saveChatHistory(store, history) ==
  IF store.kind = "blocked" THEN store ELSE Stored(JSONstringify(history))

\* how that call of saveChatHistory ended
saved(store) == IF store.kind = "blocked" THEN "failed" ELSE "ok"

(***************************************************************************)
(* The message list of the page.  A node is the class of its element and  *)
(* the text it was rendered from.                                          *)
(***************************************************************************)
Node(role, content) == [cls |-> role, text |-> content]

addMessageToChat(nodes, role, content) == Append(nodes, Node(role, content))

\* msg.role and msg.content of an element of the history
RoleOf(m) == IF HasField(m, "role") THEN Role(m) ELSE "undefined"
ContentOf(m) == IF HasField(m, "content") THEN Content(m) ELSE <<>>

\* renderChatFromHistory: the list is cleared, then for (const msg of
\* chatHistory) adds a node; a value that is not iterable throws after the
\* clearing, a string is iterated by character
renderChatFromHistory(history) ==
  CASE history.type = "array" ->
         [i \in 1..Len(history.items) |->
            Node(RoleOf(history.items[i]), ContentOf(history.items[i]))]
    [] history.type = "string" ->
         [i \in 1..Len(history.text) |-> Node("undefined", <<>>)]
    [] OTHER -> <<>>

pushReplacing(history, m) == [history EXCEPT !.items = <<m>>]

\* chatHistory.push(m), for an array
push(history, m) == [history EXCEPT !.items = Append(@, m)]

(***************************************************************************)
(* The inputs of the model.                                                *)
(***************************************************************************)
\* what the text input holds when sendMessage is called
InputTexts ==
  {<<>>, <<" ">>, <<" ", "h", "\n">>}

\* the lines a response body is made of
Lines ==
  { <<LBrace, Member("response", <<"a">>), RBrace>>,
    <<LBrace, Member("response", <<"b">>), RBrace>>,
    <<LBrace, Member("response", <<>>), RBrace>>,
    <<LBrace, Member("other", <<"a">>), RBrace>>,
    <<Garbage>> }

RECURSIVE Join(_)
\* the lines, separated by newlines
Join(ls) ==
  IF ls = <<>> THEN <<>>
  ELSE IF Len(ls) = 1 THEN ls[1]
  ELSE ls[1] \o <<NewLine>> \o Join(Tail(ls))

\* the bodies of at most n lines, as sequences of lines
BodyLines(n) == UNION {[1..m -> Lines] : m \in 0..n}

\* histories an earlier session may have stored
EarlierHistories ==
  { <<Message("assistant", WelcomeText), Message("user", <<"h">>),
      Message("assistant", <<"a">>)>> }

\* what localStorage may hold under STORAGE_KEY when the page is loaded
StoredValues ==
  {Absent, Blocked,
   Stored(<<>>), Stored(<<Garbage>>), Stored(<<LBrack, LBrace>>),
   Stored(<<NullTok>>), Stored(<<NumTok(<<"4", "2">>)>>),
   Stored(<<StrTok(<<"h", "i">>)>>), Stored(<<LBrace, RBrace>>)}
    \cup {Stored(JSONstringify(JArray(h))) : h \in EarlierHistories}

(***************************************************************************)
(* The state once the script has run: chatHistory is loaded and rendered. *)
(***************************************************************************)
Init ==
  /\ localStorage \in StoredValues
  /\ chatHistory = loadChatHistory(localStorage)
  /\ isProcessing = FALSE
  /\ userInputValue = <<>>
  /\ userInputDisabled = FALSE
  /\ sendButtonDisabled = FALSE
  /\ typingVisible = FALSE
  /\ chatMessages = renderChatFromHistory(chatHistory)
  /\ pc = "idle"
  /\ assistantMessageEl = 0
  /\ responseText = <<>>
  /\ body = <<>>
  /\ requests = <<>>
  /\ renders = <<>>
  /\ fullBody = <<>>
  /\ wholeLines = TRUE
  /\ wholeText = <<>>
  /\ outcome = "none"
  /\ linesSent = 0
  /\ lastSave = "none"

(***************************************************************************)
(* The stream: a chunk is split into lines and each line is parsed.        *)
(***************************************************************************)
RECURSIVE split(_)
\* chunk.split("\n")
split(chunk) ==
  IF \A i \in 1..Len(chunk) : chunk[i] # NewLine THEN <<chunk>>
  ELSE LET i == CHOOSE n \in 1..Len(chunk) :
                  chunk[n] = NewLine /\ \A m \in 1..(n - 1) : chunk[m] # NewLine
       IN  <<SubSeq(chunk, 1, i - 1)>> \o split(SubSeq(chunk, i + 1, Len(chunk)))

\* jsonData.response is there and truthy; reading it from null throws, and
\* the throw is caught with the parse errors
Responds(jsonData) ==
  /\ jsonData.type = "object"
  /\ HasField(jsonData.fields, "response")
  /\ Field(jsonData.fields, "response") # <<>>

accumulateOverwriting(text, fragment) == fragment

\* responseText += jsonData.response
accumulate(text, fragment) == text \o fragment

\* the body of the for loop for one line: acc is the accumulator and the
\* texts rendered so far
processLine(acc, line) ==
  LET jsonData == JSONparse(line)
  IN  IF Responds(jsonData)
        THEN LET text == accumulate(acc.responseText,
                                    Field(jsonData.fields, "response"))
             IN  [responseText |-> text, renders |-> Append(acc.renders, text)]
        ELSE acc

RECURSIVE processLinesUntilError(_, _)
processLinesUntilError(acc, lines) ==
  IF lines = <<>> THEN acc
  ELSE IF JSONparse(Head(lines)).type \in {"SyntaxError", "null"} THEN acc
  ELSE processLinesUntilError(processLine(acc, Head(lines)), Tail(lines))

RECURSIVE processLines(_, _)
\* for (const line of lines) { try { ... } catch (e) { ... } }
processLines(acc, lines) ==
  IF lines = <<>> THEN acc
  ELSE processLines(processLine(acc, Head(lines)), Tail(lines))

(***************************************************************************)
(* sendMessage, from the call to the first await.                          *)
(***************************************************************************)
AcceptsWhileBusy(message) == message # <<>>

\* the guard of sendMessage, negated
Accepts(message) == message # <<>> /\ ~isProcessing

EnterBusyButtonEnabled(message) ==
  /\ isProcessing' = TRUE
  /\ userInputDisabled' = TRUE
  /\ sendButtonDisabled' = FALSE
  /\ typingVisible' = TRUE
  /\ userInputValue' = <<>>

\* the statements from the guard to the push: the busy state is entered,
\* the user's node is shown and the input cleared
EnterBusy(message) ==
  /\ isProcessing' = TRUE
  /\ userInputDisabled' = TRUE
  /\ sendButtonDisabled' = TRUE
  /\ typingVisible' = TRUE
  /\ userInputValue' = <<>>

\* text: userInput.value at the call
sendMessage(text) ==
  LET message == trim(text)
  IN  IF ~Accepts(message)
        THEN /\ userInputValue' = text
             /\ UNCHANGED <<localStorage, chatHistory, isProcessing,
                            userInputDisabled, sendButtonDisabled,
                            typingVisible, chatMessages, pc,
                            assistantMessageEl, responseText, body, requests,
                            renders, fullBody, wholeLines, wholeText,
                            outcome, linesSent, lastSave>>
        ELSE IF chatHistory.type # "array"
          THEN \* chatHistory.push throws, outside the try
               /\ EnterBusy(message)
               /\ chatMessages' = addMessageToChat(chatMessages, "user", message)
               /\ UNCHANGED <<localStorage, chatHistory, pc,
                              assistantMessageEl, responseText, body,
                              requests, renders, fullBody, wholeLines,
                              wholeText, outcome, linesSent, lastSave>>
          ELSE /\ Len(requests) < MaxExchanges
               /\ EnterBusy(message)
               /\ chatHistory' = push(chatHistory, Message("user", message))
               /\ localStorage' = saveChatHistory(localStorage, chatHistory')
               /\ lastSave' = saved(localStorage)
               /\ chatMessages' =
                    Append(addMessageToChat(chatMessages, "user", message),
                           Node("assistant", <<>>))
               /\ assistantMessageEl' = Len(chatMessages) + 2
               /\ requests' = Append(requests, JSONstringify(chatHistory'))
               /\ pc' = "awaitHeaders"
               /\ responseText' = <<>>
               /\ body' = <<>>
               /\ renders' = <<>>
               /\ fullBody' = <<>>
               /\ wholeLines' = TRUE
               /\ wholeText' = <<>>
               /\ outcome' = "none"
               /\ UNCHANGED linesSent

(***************************************************************************)
(* The catch and the finally of sendMessage.                               *)
(***************************************************************************)
CatchKeepingPartial ==
  /\ chatMessages' = addMessageToChat(chatMessages, "assistant", errMsg)
  /\ chatHistory' =
       push(chatHistory, Message("assistant", responseText \o errMsg))
  /\ localStorage' = saveChatHistory(localStorage, chatHistory')
  /\ lastSave' = saved(localStorage)
  /\ outcome' = "failed"

Catch ==
  /\ chatMessages' = addMessageToChat(chatMessages, "assistant", errMsg)
  /\ chatHistory' = push(chatHistory, Message("assistant", errMsg))
  /\ localStorage' = saveChatHistory(localStorage, chatHistory')
  /\ lastSave' = saved(localStorage)
  /\ outcome' = "failed"

FinallyStillBusy ==
  /\ typingVisible' = FALSE
  /\ isProcessing' = isProcessing
  /\ userInputDisabled' = FALSE
  /\ sendButtonDisabled' = FALSE
  /\ pc' = "idle"

Finally ==
  /\ typingVisible' = FALSE
  /\ isProcessing' = FALSE
  /\ userInputDisabled' = FALSE
  /\ sendButtonDisabled' = FALSE
  /\ pc' = "idle"

Fail ==
  /\ Catch
  /\ Finally
  /\ UNCHANGED <<userInputValue, assistantMessageEl, responseText, body,
                 requests, renders, fullBody, wholeLines, wholeText,
                 linesSent>>

(***************************************************************************)
(* sendMessage resumed: the fetch settles.                                 *)
(***************************************************************************)
\* fetch rejects: a network error
fetchRejected ==
  /\ pc = "awaitHeaders"
  /\ Fail

\* the response has a status that is not a success: !response.ok
responseNotOk ==
  /\ pc = "awaitHeaders"
  /\ Fail

responseOkRecording(ls) ==
  /\ pc = "awaitHeaders"
  /\ pc' = "awaitChunk"
  /\ responseText' = <<>>
  /\ body' = Join(ls)
  /\ fullBody' = Join(ls)
  /\ linesSent' = linesSent + Len(ls)
  /\ chatHistory' = push(chatHistory, Message("assistant", <<>>))
  /\ localStorage' = saveChatHistory(localStorage, chatHistory')
  /\ UNCHANGED <<isProcessing, userInputValue, userInputDisabled,
                 sendButtonDisabled, typingVisible, chatMessages,
                 assistantMessageEl, requests, renders, wholeLines, wholeText,
                 outcome, lastSave>>

\* the response is a success; ls are the lines of the body it is going to
\* deliver
responseOk(ls) ==
  /\ pc = "awaitHeaders"
  /\ pc' = "awaitChunk"
  /\ responseText' = <<>>
  /\ body' = Join(ls)
  /\ fullBody' = Join(ls)
  /\ linesSent' = linesSent + Len(ls)
  /\ UNCHANGED <<localStorage, chatHistory, isProcessing, userInputValue,
                 userInputDisabled, sendButtonDisabled, typingVisible,
                 chatMessages, assistantMessageEl, requests, renders,
                 wholeLines, wholeText, outcome, lastSave>>

(***************************************************************************)
(* sendMessage resumed: reader.read() settles.                             *)
(***************************************************************************)
\* a line that is a JSON object with a `response` member
IsResponseLine(line) ==
  /\ Len(line) = 3
  /\ line = <<LBrace, Member("response", line[2].s), RBrace>>

\* the `response` texts of the lines, in order
RECURSIVE ResponseTexts(_)
ResponseTexts(lines) ==
  IF lines = <<>> THEN <<>>
  ELSE (IF IsResponseLine(Head(lines)) THEN <<Head(lines)[2].s>> ELSE <<>>)
         \o ResponseTexts(Tail(lines))

\* of the pieces of the chunk of n tokens about to be read, those that are a
\* whole line of the body: the first piece is not one when the read before
\* ended inside its line, the last is not one when this read ends inside it
WholeLines(n) ==
  LET start == Len(fullBody) - Len(body) + 1
      startsInside == /\ start > 1
                      /\ fullBody[start - 1] # NewLine
                      /\ body[1] # NewLine
      endsInside == /\ n < Len(body)
                    /\ body[n] # NewLine
                    /\ body[n + 1] # NewLine
      pieces == split(SubSeq(body, 1, n))
      rest == IF startsInside THEN Tail(pieces) ELSE pieces
  IN  IF endsInside /\ rest # <<>> THEN Front(rest) ELSE rest

readChunkBuffering(n) ==
  /\ pc = "awaitChunk"
  /\ n \in 1..Len(body)
  /\ LET start == Len(fullBody) - Len(body) + 1
         pending == IF /\ start > 1
                       /\ fullBody[start - 1] # NewLine
                       /\ body[1] # NewLine
                      THEN Last(split(SubSeq(fullBody, 1, start - 1)))
                      ELSE <<>>
         chunk == pending \o SubSeq(body, 1, n)
         acc == processLines([responseText |-> responseText, renders |-> <<>>],
                             split(chunk))
     IN  /\ responseText' = acc.responseText
         /\ renders' = renders \o acc.renders
         /\ chatMessages' =
              IF acc.renders = <<>> THEN chatMessages
              ELSE [chatMessages EXCEPT
                      ![assistantMessageEl].text = Last(acc.renders)]
         /\ body' = SubSeq(body, n + 1, Len(body))
         /\ wholeLines' =
              (wholeLines /\ (n = Len(body) \/ body[n] = NewLine
                                \/ body[n + 1] = NewLine))
         /\ wholeText' = wholeText \o Flatten(ResponseTexts(WholeLines(n)))
  /\ UNCHANGED <<localStorage, chatHistory, isProcessing, userInputValue,
                 userInputDisabled, sendButtonDisabled, typingVisible, pc,
                 assistantMessageEl, requests, fullBody, outcome, linesSent,
                 lastSave>>

\* a chunk of n tokens arrives
readChunk(n) ==
  /\ pc = "awaitChunk"
  /\ n \in 1..Len(body)
  /\ LET chunk == SubSeq(body, 1, n)
         acc == processLines([responseText |-> responseText, renders |-> <<>>],
                             split(chunk))
     IN  /\ responseText' = acc.responseText
         /\ renders' = renders \o acc.renders
         /\ chatMessages' =
              IF acc.renders = <<>> THEN chatMessages
              ELSE [chatMessages EXCEPT
                      ![assistantMessageEl].text = Last(acc.renders)]
         /\ body' = SubSeq(body, n + 1, Len(body))
         /\ wholeLines' =
              (wholeLines /\ (n = Len(body) \/ body[n] = NewLine
                                \/ body[n + 1] = NewLine))
         /\ wholeText' = wholeText \o Flatten(ResponseTexts(WholeLines(n)))
  /\ UNCHANGED <<localStorage, chatHistory, isProcessing, userInputValue,
                 userInputDisabled, sendButtonDisabled, typingVisible, pc,
                 assistantMessageEl, requests, fullBody, outcome, linesSent,
                 lastSave>>

readDonePropagating ==
  /\ pc = "awaitChunk"
  /\ body = <<>>
  /\ IF localStorage.kind = "blocked"
       THEN Fail
       ELSE /\ chatHistory' =
                 push(chatHistory, Message("assistant", responseText))
            /\ localStorage' = saveChatHistory(localStorage, chatHistory')
            /\ lastSave' = saved(localStorage)
            /\ outcome' = "done"
            /\ Finally
            /\ UNCHANGED <<userInputValue, chatMessages, assistantMessageEl,
                           responseText, body, requests, renders, fullBody,
                           wholeLines, wholeText, linesSent>>

readDoneSkippingEmpty ==
  /\ pc = "awaitChunk"
  /\ body = <<>>
  /\ chatHistory' =
       IF responseText = <<>> THEN chatHistory
       ELSE push(chatHistory, Message("assistant", responseText))
  /\ localStorage' = saveChatHistory(localStorage, chatHistory')
  /\ lastSave' = saved(localStorage)
  /\ outcome' = "done"
  /\ Finally
  /\ UNCHANGED <<userInputValue, chatMessages, assistantMessageEl,
                 responseText, body, requests, renders, fullBody, wholeLines,
                 wholeText, linesSent>>

\* the stream has ended: done
readDone ==
  /\ pc = "awaitChunk"
  /\ body = <<>>
  /\ chatHistory' = push(chatHistory, Message("assistant", responseText))
  /\ localStorage' = saveChatHistory(localStorage, chatHistory')
  /\ lastSave' = saved(localStorage)
  /\ outcome' = "done"
  /\ Finally
  /\ UNCHANGED <<userInputValue, chatMessages, assistantMessageEl,
                 responseText, body, requests, renders, fullBody, wholeLines,
                 wholeText, linesSent>>

\* reader.read() rejects: the connection breaks while the body is read
readRejected ==
  /\ pc = "awaitChunk"
  /\ Fail

Next ==
  \/ \E text \in InputTexts : sendMessage(text)
  \/ fetchRejected
  \/ responseNotOk
  \/ /\ pc = "awaitHeaders"
     /\ \E ls \in BodyLines(MaxLines - linesSent) : responseOk(ls)
  \/ /\ pc = "awaitChunk"
     /\ \E n \in 1..Len(body) : readChunk(n)
  \/ readDone
  \/ readRejected

Spec == Init /\ [][Next]_vars

(***************************************************************************)
(* The properties.                                                         *)
(***************************************************************************)
IsArray == chatHistory.type = "array"
Transcript == chatHistory.items
IsBlank(text) == \A i \in 1..Len(text) : text[i] \in WhiteSpace
ErrorMessage == Message("assistant", errMsg)
\* everything a call of sendMessage may act on, but the text of the input
exchangeVars ==
  <<localStorage, chatHistory, isProcessing, userInputDisabled,
    sendButtonDisabled, typingVisible, chatMessages, pc, assistantMessageEl,
    responseText, body, requests, renders, fullBody, wholeLines, wholeText,
    outcome, linesSent, lastSave>>

\* C1: while isProcessing is true no step issues a fetch or appends a user
\* message, and a call of sendMessage, whatever the input holds, changes
\* nothing but the text of the input: no fetch, no append, nothing kept to
\* be run later.
OneExchangeInFlight ==
  [][isProcessing =>
       /\ requests' = requests
       /\ pc' = "awaitHeaders" => pc = "awaitHeaders"
       /\ \A text \in InputTexts :
            sendMessage(text) => UNCHANGED exchangeVars]_vars

\* a submission with text was turned down while a body was being read
RejectedWhileBusy ==
  /\ isProcessing
  /\ pc = "awaitChunk"
  /\ Len(requests) = 1
  /\ ~IsBlank(userInputValue)

\* C2: a call of sendMessage with an empty or whitespace-only input issues
\* no fetch and leaves the transcript, the stored history, the busy flag
\* and the message list as they are.
BlankSubmissionIgnored ==
  [][\A text \in InputTexts :
       (IsBlank(text) /\ sendMessage(text)) =>
          UNCHANGED <<chatHistory, localStorage, isProcessing, chatMessages,
                      requests, pc>>]_vars

\* a whitespace-only submission was made while nothing was in flight
BlankRejectedWhileIdle ==
  /\ ~isProcessing
  /\ pc = "idle"
  /\ userInputValue = <<" ">>
  /\ Len(requests) = 1

\* C3: once an exchange has settled, however it did, the busy flag is
\* false, the input and the button are enabled, the typing indicator is
\* hidden, and a submission with text is accepted.
BusyReleased ==
  (pc = "idle" /\ outcome # "none") =>
     /\ ~isProcessing
     /\ ~userInputDisabled
     /\ ~sendButtonDisabled
     /\ ~typingVisible
     /\ \A text \in InputTexts : ~IsBlank(text) => Accepts(trim(text))

\* after an exchange that failed, a second submission was accepted
AcceptedAfterFailure ==
  /\ Len(requests) = 2
  /\ pc = "awaitHeaders"
  /\ isProcessing
  /\ Transcript[Len(Transcript) - 1] = ErrorMessage

\* C4: a step that makes an exchange fail appends exactly one message to
\* the transcript, the assistant's message with the fixed error text, and
\* issues no request; the text accumulated so far is not appended.
FailureAppendsFallback ==
  [][(pc # "idle" /\ pc' = "idle" /\ outcome' = "failed") =>
       /\ Transcript' = Append(Transcript, ErrorMessage)
       /\ requests' = requests]_vars

\* an exchange failed after text had been accumulated
FailedAfterFragments ==
  /\ pc = "idle"
  /\ outcome = "failed"
  /\ responseText # <<>>
  /\ Transcript[Len(Transcript)] = ErrorMessage

NonEmpty(t) == t # <<>>
\* the texts that add something to the accumulator
Contributions(lines) == SelectSeq(ResponseTexts(lines), NonEmpty)

\* the concatenations of the first 1, 2, ... of the texts
Prefixes(texts) ==
  [i \in 1..Len(texts) |-> Flatten(SubSeq(texts, 1, i))]

\* C5: when the stream has ended and no read ended inside a line, the
\* content of the assistant's message is the concatenation, in order, of the
\* `response` texts of the lines of the body, and the pending element was
\* rendered once per line that adds text, with the successive prefixes of
\* that content.
ReplyIsConcatenation ==
  (pc = "idle" /\ outcome = "done" /\ wholeLines) =>
     /\ Transcript[Len(Transcript)] =
          Message("assistant", Flatten(ResponseTexts(split(fullBody))))
     /\ renders = Prefixes(Contributions(split(fullBody)))

\* the two lines of the scenario, read whole: rendered twice, "a" then "ab"
TwoFragmentsJoined ==
  /\ pc = "idle"
  /\ outcome = "done"
  /\ wholeLines
  /\ Len(split(fullBody)) = 2
  /\ renders = << <<"a">>, <<"a", "b">> >>
  /\ Transcript[Len(Transcript)] = Message("assistant", <<"a", "b">>)

\* C6: a read never ends the exchange, and of the lines of its chunk only
\* those that are objects with a `response` member count: the accumulator
\* grows by their texts and the element is rendered once for each that adds
\* text, whatever other lines stand before, between or after them.
BadLinesSkipped ==
  [][(pc = "awaitChunk" /\ Len(body') < Len(body)) =>
       LET lines == split(SubSeq(body, 1, Len(body) - Len(body')))
       IN  /\ pc' = "awaitChunk"
           /\ outcome' = outcome
           /\ chatHistory' = chatHistory
           /\ responseText' = responseText \o Flatten(ResponseTexts(lines))
           /\ Len(renders') = Len(renders) + Len(Contributions(lines))
           /\ Len(chatMessages') = Len(chatMessages)]_vars

\* a line that is no JSON, then a line with text: the text was accumulated
TextAfterBadLine ==
  /\ pc = "awaitChunk"
  /\ body = <<>>
  /\ fullBody = <<Garbage, NewLine,
                  LBrace, Member("response", <<"a">>), RBrace>>
  /\ wholeLines
  /\ responseText = <<"a">>
  /\ renders = << <<"a">> >>

\* C7: every step leaves chatHistory as it is or appends one message at
\* its end.
AppendOnly ==
  [][\/ chatHistory' = chatHistory
     \/ /\ IsArray
        /\ chatHistory'.type = "array"
        /\ Len(Transcript') = Len(Transcript) + 1
        /\ SubSeq(Transcript', 1, Len(Transcript)) = Transcript]_vars

\* two exchanges, one failed and one completed, on the default history
GrownByFour ==
  /\ pc = "idle"
  /\ Len(requests) = 2
  /\ outcome = "done"
  /\ Len(Transcript) = 5
  /\ Transcript[3] = ErrorMessage
  /\ Transcript[1] = Message("assistant", WelcomeText)

\* C8: while the storage can be written, a fresh load of what is stored
\* gives the history in memory; and once a save has been made, what is
\* stored is the serialised history in memory.
StoredIsTranscript ==
  localStorage.kind # "blocked" =>
     /\ loadChatHistory(localStorage) = chatHistory
     /\ lastSave = "ok" =>
          /\ localStorage = Stored(JSONstringify(chatHistory))
          /\ JSONparse(localStorage.raw).items[Len(Transcript)] =
               Transcript[Len(Transcript)]

\* a completed reply with text is what a fresh load ends with
ReplyStored ==
  /\ pc = "idle"
  /\ outcome = "done"
  /\ lastSave = "ok"
  /\ responseText # <<>>
  /\ LET loaded == loadChatHistory(localStorage).items
     IN  loaded[Len(loaded)] = Message("assistant", responseText)

\* C9: when nothing is stored at startup, the history is the one welcome
\* message of the assistant.  (Nothing stored and no save made: no
\* submission has been accepted yet.)
DefaultWhenAbsent ==
  (localStorage = Absent /\ lastSave = "none") =>
     chatHistory = JArray(<<Message("assistant", WelcomeText)>>)

\* the page loaded with nothing stored
StartedEmpty ==
  /\ localStorage = Absent
  /\ lastSave = "none"
  /\ requests = <<>>
  /\ Len(Transcript) = 1
  /\ chatMessages = <<Node("assistant", WelcomeText)>>

\* the text is a serialised array of {role, content} records
IsSerializedTranscript(raw) ==
  LET v == JSONparse(raw)
  IN  /\ v.type = "array"
      /\ \A i \in 1..Len(v.items) :
           HasField(v.items[i], "role") /\ HasField(v.items[i], "content")

\* C10: when what is stored at startup is not a serialised array of
\* {role, content} records, the history is the default one.
DefaultWhenMalformed ==
  (/\ localStorage.kind = "text"
   /\ lastSave = "none"
   /\ requests = <<>>
   /\ ~IsSerializedTranscript(localStorage.raw)) =>
     chatHistory = JArray(<<Message("assistant", WelcomeText)>>)

\* C11: when the last save failed, the exchange is where it would be with
\* a working storage: the message just appended is in chatHistory, the
\* request was issued with it, a stream that ended is recorded as the
\* reply and not as a failure, and the busy flag is released on settling.
SaveFailureNotPropagated ==
  lastSave = "failed" =>
     /\ IsArray
     /\ Len(requests) >= 1
     /\ pc # "idle" =>
          /\ Role(Transcript[Len(Transcript)]) = "user"
          /\ Last(requests) = JSONstringify(chatHistory)
          /\ isProcessing
          /\ (pc = "awaitChunk" /\ body = <<>>) =>
               ENABLED (/\ Next
                        /\ outcome' = "done"
                        /\ chatHistory'.items =
                             Append(Transcript,
                                    Message("assistant", responseText)))
     /\ pc = "idle" =>
          /\ outcome \in {"done", "failed"}
          /\ ~isProcessing
          /\ outcome = "done" =>
               Transcript[Len(Transcript)] = Message("assistant", responseText)
          /\ outcome = "failed" =>
               Transcript[Len(Transcript)] = ErrorMessage
          /\ JSONparse(Last(requests)).items = Front(Transcript)

\* with a storage that throws, a stream with text ended and was recorded
ReplyKeptWithoutStorage ==
  /\ localStorage = Blocked
  /\ lastSave = "failed"
  /\ pc = "idle"
  /\ outcome = "done"
  /\ ~isProcessing
  /\ responseText # <<>>
  /\ Transcript[Len(Transcript)] = Message("assistant", responseText)

\* C12: no error is fatal to the session: once nothing of an exchange is
\* pending any more (no request awaited, no chunk awaited), the ready state
\* is restored: isProcessing is false, the input and the button are enabled.
ReadyRestored ==
  pc = "idle" =>
     /\ ~isProcessing
     /\ ~userInputDisabled
     /\ ~sendButtonDisabled

\* C13: a line of the body that is split across two reads is dropped: the
\* accumulator holds the `response` texts of exactly the lines that arrived
\* whole within one chunk, a stream read with a split line can still end as
\* a completed exchange, and the content of the assistant's message is then
\* the concatenation of the texts of the whole lines only.
SplitLineDropped ==
  /\ responseText = wholeText
  /\ (pc = "awaitChunk" /\ ~wholeLines /\ body = <<>>) =>
       ENABLED (/\ Next
                /\ outcome' = "done"
                /\ chatHistory'.items =
                     Append(Transcript, Message("assistant", wholeText)))
  /\ (pc = "idle" /\ outcome = "done") =>
       Content(Transcript[Len(Transcript)]) = wholeText

\* of the lines "a" and "b" the second was split by a read: the reply is "a"
SplitFragmentLost ==
  /\ pc = "idle"
  /\ outcome = "done"
  /\ ~wholeLines
  /\ fullBody = <<LBrace, Member("response", <<"a">>), RBrace, NewLine,
                  LBrace, Member("response", <<"b">>), RBrace>>
  /\ Transcript[Len(Transcript)] = Message("assistant", <<"a">>)

\* C14: in every state in which control is yielded, the text input is
\* disabled, the send button is disabled and the typing indicator is visible
\* if and only if isProcessing is true.
InputTracksBusy ==
  /\ userInputDisabled = isProcessing
  /\ sendButtonDisabled = isProcessing
  /\ typingVisible = isProcessing

\* a chunk is awaited with the surface locked, after an exchange that left it
\* unlocked
SurfaceLockedAgain ==
  /\ pc = "awaitChunk"
  /\ Len(requests) = 2
  /\ isProcessing
  /\ userInputDisabled
  /\ sendButtonDisabled
  /\ typingVisible

\* C15: a step that accepts a submission (the busy flag goes up) issues
\* exactly one request, and its messages are the Transcript of before the
\* step, in order, followed by one user message whose text is trimmed.
RequestCarriesTranscript ==
  [][(~isProcessing /\ isProcessing') =>
       /\ Len(requests') = Len(requests) + 1
       /\ LET messages == JSONparse(Last(requests')).items
          IN  /\ Front(messages) = Transcript
              /\ Role(Last(messages)) = "user"
              /\ Content(Last(messages)) = trim(Content(Last(messages)))
              /\ Content(Last(messages)) # <<>>]_vars

\* C16: while the request or a chunk is awaited, the Transcript is the one
\* the request was issued with, ending in the user's message, and it is what
\* storage holds (unless storage throws): the user's message was appended
\* and saved before the request, no assistant message has been appended yet
\* and the text accumulated so far is in neither.  Once the exchange has
\* settled, exactly one assistant message follows that Transcript.
ExchangeOrdered ==
  /\ pc # "idle" =>
       /\ IsArray
       /\ outcome = "none"
       /\ Role(Transcript[Len(Transcript)]) = "user"
       /\ JSONparse(Last(requests)).items = Transcript
       /\ localStorage # Blocked =>
            localStorage = Stored(JSONstringify(chatHistory))
  /\ (pc = "idle" /\ outcome # "none") =>
       /\ Front(Transcript) = JSONparse(Last(requests)).items
       /\ Role(Transcript[Len(Transcript)]) = "assistant"
       /\ localStorage # Blocked =>
            localStorage = Stored(JSONstringify(chatHistory))

\* text has been accumulated and the stream is still open: storage holds the
\* Transcript that ends in the user's message
PartialTextNotStored ==
  /\ pc = "awaitChunk"
  /\ responseText # <<>>
  /\ body # <<>>
  /\ Role(Transcript[Len(Transcript)]) = "user"
  /\ localStorage = Stored(JSONstringify(chatHistory))

\* C17: when chatHistory is an array and no exchange is in flight, the
\* visible list has exactly one node per message of the Transcript, in the
\* order of the Transcript and with the role of the message.
VisibleMirrorsTranscript ==
  (IsArray /\ ~isProcessing) =>
     /\ Len(chatMessages) = Len(Transcript)
     /\ \A i \in 1..Len(chatMessages) :
          i <= Len(Transcript) => chatMessages[i].cls = Role(Transcript[i])

\* the session started from the default welcome Transcript: nothing has been
\* requested and chatHistory is the default, or the first request carried the
\* welcome message and the first user message only
StartedFromDefault ==
  IF requests = <<>>
    THEN chatHistory = defaultHistory
    ELSE LET first == JSONparse(requests[1]).items
         IN  Len(first) = 2 /\ first[1] = Message("assistant", WelcomeText)

\* C18: in a session started from the default Transcript the roles are
\* assistant, user, assistant, ...; every request issued has added one user
\* message and, once settled, one assistant message, so that the Transcript
\* ends with an assistant message when no exchange is in flight and with one
\* unanswered user message while one is.
RolesAlternate ==
  StartedFromDefault =>
     /\ IsArray
     /\ \A i \in 1..Len(Transcript) :
          Role(Transcript[i]) = IF i % 2 = 1 THEN "assistant" ELSE "user"
     /\ pc = "idle" =>
          /\ ~isProcessing
          /\ Len(Transcript) = 1 + 2 * Len(requests)
     /\ pc # "idle" =>
          /\ isProcessing
          /\ Len(Transcript) = 2 * Len(requests)

\* two exchanges from the default, the first with an empty reply, the second
\* failed: five messages, the roles alternating
FiveAlternating ==
  /\ StartedFromDefault
  /\ pc = "idle"
  /\ Len(requests) = 2
  /\ Len(Transcript) = 5
  /\ Transcript[3] = Message("assistant", <<>>)
  /\ Transcript[5] = ErrorMessage

====
